---- MODULE Spec2Model ----
(***************************************************************************)
(* KnobHeadless (packages/react-knob-headless/src/KnobHeadless.tsx): the   *)
(* drag handler that turns gesture deltas into raw values, the attributes  *)
(* the component renders, and the owner that holds valueRaw.               *)
(*                                                                         *)
(* Numbers.  A JavaScript number is a binary floating-point number; every  *)
(* arithmetic operation returns the representable number nearest to the    *)
(* exact result (ties to even).  The model keeps that behaviour with a     *)
(* narrower format: a number is an integer n standing for n / Scale, with  *)
(* a significand of MantissaBits bits.  NaN and the infinities are outside *)
(* the modelled number domain.                                             *)
(***************************************************************************)
EXTENDS Integers, Sequences, FiniteSets

\* ---------------------------------------------------------------- bounds
MantissaBits == 4      \* bits of the significand (53 in the real format)
FracBits == 6          \* the smallest spacing of numbers is 2^-FracBits

Pow2(k) == 2^k

Scale == Pow2(FracBits)

Abs(x) == IF x < 0 THEN -x ELSE x

\* The exponent k of the spacing 2^k (in units of 1/Scale) of the numbers
\* around a/b: the least k with a/b < 2^(MantissaBits + k).
RECURSIVE UlpExp(_, _, _)
UlpExp(a, b, k) == IF a < b * Pow2(MantissaBits + k) THEN k ELSE UlpExp(a, b, k + 1)

\* The representable number nearest to the rational a/b (b > 0), ties to even.
RoundNearestEven(a, b) ==
    LET mag == Abs(a)
        u   == Pow2(UlpExp(mag, b, 0))
        den == b * u
        q   == mag \div den
        r   == mag % den
        up  == (2 * r > den) \/ (2 * r = den /\ q % 2 = 1)
        res == (IF up THEN q + 1 ELSE q) * u
    IN  IF a < 0 THEN -res ELSE res

NumAdd(x, y) == RoundNearestEven(x + y, 1)
NumSub(x, y) == RoundNearestEven(x - y, 1)
NumMul(x, y) == RoundNearestEven(x * y, Scale)
NumDiv(x, y) == IF y < 0 THEN RoundNearestEven(-(x * Scale), -y)
                         ELSE RoundNearestEven(x * Scale, y)

\* A whole number of units (a pixel count, an integer bound) as a number.
Num(k) == k * Scale

Min(x, y) == IF x < y THEN x ELSE y
Max(x, y) == IF x > y THEN x ELSE y

\* ------------------------------------------------------- @dsp-ts/math
\* (a clamp that forgets the lower bound)
clampUpperOnly(x, min, max) == Min(max, x)
clamp(x, min, max) == Max(min, Min(max, x))
\* (a clamp01 that lets a position pass 1)
clamp01LowerOnly(x) == Max(0, x)
clamp01(x) == clamp(x, 0, Num(1))
mapTo01Linear(x, min, max) == NumDiv(NumSub(x, min), NumSub(max, min))
\* (a mapping back that forgets the offset of the range)
mapFrom01LinearUnshifted(x, min, max) == NumMul(NumSub(max, min), x)
mapFrom01Linear(x, min, max) == NumAdd(NumMul(NumSub(max, min), x), min)

\* ------------------------------------------------------- optional props
\* An optional prop is <<>> when omitted and <<v>> when given.
Undefined == <<>>
Given(v) == <<v>>
OrDefault(opt, d) == IF opt = Undefined THEN d ELSE opt[1]

axisDefault == "y"
includeIntoTabOrderDefault == FALSE
disabledDefault == FALSE
mapTo01Default == "mapTo01Linear"
mapFrom01Default == "mapFrom01Linear"

\* ------------------------------------------------------- model bounds
MaxDelta == 1          \* a pointer event moves at most MaxDelta pixels per axis

Movements == (-MaxDelta..MaxDelta) \X (-MaxDelta..MaxDelta)

\* [valueMin, valueMax] with valueMin < valueMax.
Ranges == { <<Scale \div 8, 9 * (Scale \div 4)>>, <<Num(-3), 5 * (Scale \div 16)>> }

Sensitivities == { 3 * (Scale \div 32), Num(2), -(Scale \div 4) }

\* Values an owner-supplied mapTo01 / mapFrom01 may return, in and out of range.
ArbitraryResults == { Num(-4), Scale \div 2, Num(7) }

RoundFns == { "identity", "Math.round" }

VARIABLES
    props,       \* the props of the current render, valueRaw apart
    valueRaw,    \* the valueRaw prop: the owner's state
    element,     \* the attributes of the rendered div
    dragOptions, \* the options useDrag was given at the last render
    pointer,     \* "up" | "down": the pointer over the element
    gesture,     \* useDrag's state: "idle" | "dragging"
    focused,     \* whether the element holds the focus
    lastEvent,   \* the pointer event handled last
    lastCall     \* <<>>, or <<r>>: the locals of the last run of the drag handler

vars == <<props, valueRaw, element, dragOptions, pointer, gesture, focused,
          lastEvent, lastCall>>

\* ------------------------------------------------------- props, with defaults
valueMin == props.valueMin
valueMax == props.valueMax
dragSensitivity == props.dragSensitivity
orientation == props.orientation
axis == OrDefault(props.axis, axisDefault)
includeIntoTabOrder == OrDefault(props.includeIntoTabOrder, includeIntoTabOrderDefault)
disabled == OrDefault(props.disabled, disabledDefault)
mapTo01 == OrDefault(props.mapTo01, mapTo01Default)
mapFrom01 == OrDefault(props.mapFrom01, mapFrom01Default)

\* Math.round: the nearest integer, halves going up.
MathRound(x) == ((x + Scale \div 2) \div Scale) * Scale

valueRawRoundFn(x) == IF props.valueRawRoundFn = "identity" THEN x ELSE MathRound(x)

\* The owner's formatting function is not interpreted: the text of x.
valueRawDisplayFn(x) == <<"text", x>>

\* (a tab index that forgets the disabled state)
getTabIndexOfFlag(tabOrder, dis) == IF tabOrder THEN 0 ELSE -1
getTabIndex(tabOrder, dis) == IF ~dis /\ tabOrder THEN 0 ELSE -1

getDragAxis(orient, ax) ==
    IF orient # Undefined
    THEN (IF orient[1] = "horizontal" THEN Given("x") ELSE Given("y"))
    ELSE (IF ax = "xy" THEN Undefined ELSE Given(ax))

\* (an aria-orientation that forgets the legacy orientation)
getAriaOrientationOfAxis(orient, ax) ==
    IF ax = "xy" THEN Undefined
    ELSE IF ax = "x" THEN Given("horizontal") ELSE Given("vertical")
getAriaOrientation(orient, ax) ==
    IF orient # Undefined THEN orient
    ELSE IF ax = "xy" THEN Undefined
    ELSE IF ax = "x" THEN Given("horizontal") ELSE Given("vertical")

\* ------------------------------------------------------- render
\* The attributes of the div for the value raw.
Render(raw) ==
    [ role            |-> "slider",
      ariaValueNow    |-> valueRawRoundFn(raw),
      ariaValueMin    |-> valueMin,
      ariaValueMax    |-> valueMax,
      ariaOrientation |-> getAriaOrientation(orientation, axis),
      ariaValueText   |-> valueRawDisplayFn(raw),
      tabIndex        |-> getTabIndex(includeIntoTabOrder, disabled),
      ariaDisabled    |-> IF disabled THEN Given(TRUE) ELSE Undefined,
      dataDisabled    |-> IF disabled THEN Given(TRUE) ELSE Undefined ]

\* (options that leave the gesture enabled)
DragOptionsEnabled == [ axis |-> getDragAxis(orientation, axis), enabled |-> TRUE ]
\* The options of useDrag.
DragOptions == [ axis |-> getDragAxis(orientation, axis), enabled |-> ~disabled ]

\* ------------------------------------------------------- useDrag
\* The delta the handler receives for a pointer movement: with an axis lock the
\* other component is dropped.
RestrictToAxis(lock, movement) ==
    IF lock = Undefined THEN movement
    ELSE IF lock[1] = "x" THEN <<movement[1], 0>>
    ELSE <<0, movement[2]>>

\* The results a mapping prop may give for one call.
MapTo01(x, min, max) ==
    IF mapTo01 = mapTo01Default THEN { mapTo01Linear(x, min, max) } ELSE ArbitraryResults
MapFrom01(x, min, max) ==
    IF mapFrom01 = mapFrom01Default THEN { mapFrom01Linear(x, min, max) } ELSE ArbitraryResults

\* (a diff01 that forgets to negate the vertical axis)
Diff01Unsigned(delta, sensitivity) ==
    NumAdd(NumMul(Num(delta[1]), sensitivity), NumMul(Num(delta[2]), sensitivity))
\* diff01 of the handler, for the delta it receives.
Diff01(delta, sensitivity) ==
    LET d0 == NumAdd(0, NumMul(Num(delta[1]), sensitivity))
    IN  NumAdd(d0, NumMul(Num(delta[2]), -sensitivity))

\* The owner's onValueRawChange: it stores the value and renders again, or
\* leaves its state alone.
onValueRawChange(newValueRaw) ==
    IF props.onValueRawChange = "setValueRaw"
    THEN /\ valueRaw' = newValueRaw
         /\ element' = Render(newValueRaw)
    ELSE UNCHANGED <<valueRaw, element>>

\* One run of the drag handler on the value raw, mapTo01 returning one of
\* the values of positions.
HandlerFrom(positions, raw, movement) ==
    LET delta  == RestrictToAxis(dragOptions.axis, movement)
        diff01 == Diff01(delta, dragSensitivity)
    IN  \E value01 \in positions :
          LET newValue01 == clamp01(NumAdd(value01, diff01))
          IN  \E mapped \in MapFrom01(newValue01, valueMin, valueMax) :
                LET newValueRaw == clamp(mapped, valueMin, valueMax)
                IN  /\ lastCall' = << [ movement |-> movement, delta |-> delta,
                                        diff01 |-> diff01, valueRaw |-> raw,
                                        value01 |-> value01, newValue01 |-> newValue01,
                                        mapped |-> mapped, newValueRaw |-> newValueRaw ] >>
                    /\ onValueRawChange(newValueRaw)

Handler(raw, movement) == HandlerFrom(MapTo01(raw, valueMin, valueMax), raw, movement)

\* (a handler that goes on from the position of its last run)
DragHandlerAccumulating(movement) ==
    IF lastCall = <<>> THEN Handler(valueRaw, movement)
    ELSE HandlerFrom({ lastCall[1].newValue01 }, valueRaw, movement)
\* (a handler that starts from the rounded value)
DragHandlerOfRounded(movement) == Handler(valueRawRoundFn(valueRaw), movement)
\* The handler closes over the valueRaw of the last render.
DragHandler(movement) == Handler(valueRaw, movement)

\* ------------------------------------------------------- the props explored
\* The props of a plain knob: every optional prop omitted.
PlainProps ==
    [ valueMin |-> Num(0), valueMax |-> Num(2), dragSensitivity |-> Scale \div 8,
      valueRawRoundFn |-> "identity", onValueRawChange |-> "setValueRaw",
      orientation |-> Undefined, axis |-> Undefined,
      includeIntoTabOrder |-> Undefined, disabled |-> Undefined,
      mapTo01 |-> Undefined, mapFrom01 |-> Undefined ]

OptionalBoolean == { Undefined, Given(TRUE), Given(FALSE) }

Owners == { "setValueRaw", "ignore" }

\* Every includeIntoTabOrder and disabled, under an owner that keeps its value.
FocusProps ==
    { [ PlainProps EXCEPT !.includeIntoTabOrder = t, !.disabled = d,
                          !.onValueRawChange = "ignore" ] :
        t \in OptionalBoolean, d \in OptionalBoolean }

\* Every orientation and axis, under an owner that keeps its value.
AxisProps ==
    { [ PlainProps EXCEPT !.orientation = o, !.axis = a,
                          !.onValueRawChange = "ignore" ] :
        o \in { Undefined, Given("horizontal"), Given("vertical") },
        a \in { Undefined, Given("x"), Given("y"), Given("xy") } }

\* Ranges and sensitivities, with the owner storing the value or not.
NumericProps ==
    { [ PlainProps EXCEPT !.valueMin = r[1], !.valueMax = r[2],
                          !.dragSensitivity = s, !.onValueRawChange = o ] :
        r \in Ranges, s \in Sensitivities, o \in Owners }

\* Owner-supplied mapping functions.
MappingProps ==
    { [ PlainProps EXCEPT !.mapTo01 = t, !.mapFrom01 = f, !.axis = Given("xy") ] :
        t \in { Undefined, Given("arbitrary") }, f \in { Undefined, Given("arbitrary") } }

\* Owner-supplied rounding.
RoundingProps ==
    { [ PlainProps EXCEPT !.valueRawRoundFn = f, !.valueMax = m,
                          !.onValueRawChange = o ] :
        f \in RoundFns \ {"identity"}, m \in { Num(2), Num(3) }, o \in Owners }

AttributeProps == FocusProps \cup AxisProps
ValueProps == NumericProps \cup RoundingProps

\* The values the owner may start from: the bounds, a value between them and
\* values outside the range.
InitialValues(min, max) ==
    { min, max, NumAdd(min, 7 * (Scale \div 4)), NumAdd(max, Num(1)), NumSub(min, Num(1)) }

\* ------------------------------------------------------- state machine
Init ==
    /\ \/ /\ props \in AttributeProps
          /\ valueRaw = NumAdd(props.valueMin, Scale \div 4)
       \/ /\ props \in MappingProps
          /\ valueRaw \in { NumAdd(props.valueMin, Scale \div 4), NumAdd(props.valueMax, Num(1)) }
       \/ /\ props \in ValueProps
          /\ valueRaw \in InitialValues(props.valueMin, props.valueMax)
    /\ element = Render(valueRaw)
    /\ dragOptions = DragOptions
    /\ pointer = "up"
    /\ gesture = "idle"
    /\ focused = FALSE
    /\ lastEvent = "none"
    /\ lastCall = <<>>

\* Pointer down on the element: useDrag starts a gesture when enabled, and
\* onPointerDown focuses the element unless disabled.
PointerDown ==
    /\ pointer = "up"
    /\ pointer' = "down"
    /\ gesture' = IF dragOptions.enabled THEN "dragging" ELSE gesture
    /\ focused' = IF ~disabled THEN TRUE ELSE focused
    /\ lastEvent' = "pointerdown"
    /\ UNCHANGED <<props, valueRaw, element, dragOptions, lastCall>>

\* Pointer movement: a frame of the gesture when one is going on.  With an axis
\* lock the gesture library may withhold a frame (movement not recognised as
\* along the axis); it never does without a lock.
PointerMove ==
    /\ \/ /\ gesture = "dragging"
          /\ \E movement \in Movements : DragHandler(movement)
          /\ lastEvent' = "frame"
       \/ /\ gesture # "dragging" \/ dragOptions.axis # Undefined
          /\ lastEvent' = "pointermove"
          /\ UNCHANGED <<valueRaw, element, lastCall>>
    /\ UNCHANGED <<props, dragOptions, pointer, gesture, focused>>

\* Pointer up: the gesture ends.
PointerUp ==
    /\ pointer = "down"
    /\ pointer' = "up"
    /\ gesture' = "idle"
    /\ lastEvent' = "pointerup"
    /\ UNCHANGED <<props, valueRaw, element, dragOptions, focused, lastCall>>

\* (a cancellation that leaves the gesture going)
PointerCancelMissed ==
    /\ pointer = "down"
    /\ pointer' = "up"
    /\ lastEvent' = "pointercancel"
    /\ UNCHANGED <<props, valueRaw, element, dragOptions, gesture, focused, lastCall>>
\* Pointer lost: the gesture is cancelled.
PointerCancel ==
    /\ pointer = "down"
    /\ pointer' = "up"
    /\ gesture' = "idle"
    /\ lastEvent' = "pointercancel"
    /\ UNCHANGED <<props, valueRaw, element, dragOptions, focused, lastCall>>

Next == PointerDown \/ PointerMove \/ PointerUp \/ PointerCancel

Spec == Init /\ [][Next]_vars

\* ======================================================= claims
Called == lastCall # <<>>
Call == lastCall[1]
InRange(x) == valueMin <= x /\ x <= valueMax
DefaultCurve == mapTo01 = mapTo01Default /\ mapFrom01 = mapFrom01Default
OwnerStores == props.onValueRawChange = "setValueRaw"

C2_DisabledInert ==
    /\ dragOptions.enabled = ~disabled
    /\ disabled => /\ ~Called
                   /\ gesture = "idle"
                   /\ ~focused
                   /\ lastEvent # "frame"
                   /\ element.ariaDisabled = Given(TRUE)
                   /\ element.dataDisabled = Given(TRUE)
    /\ ~disabled => /\ element.ariaDisabled = Undefined
                    /\ element.dataDisabled = Undefined

\* C2 witness: a disabled control on which the pointer went down and moved.
C2_Witness ==
    /\ props.disabled = Given(TRUE)
    /\ pointer = "down"
    /\ lastEvent = "pointermove"

\* C3: tabIndex is 0 exactly when includeIntoTabOrder is true and disabled is
\* not, and -1 otherwise; omitted props count as false.
C3_TabIndex ==
    element.tabIndex =
        IF props.includeIntoTabOrder = Given(TRUE) /\ props.disabled # Given(TRUE)
        THEN 0 ELSE -1

\* C3 witness: a disabled control asked into the tab order.
C3_Witness ==
    /\ props.includeIntoTabOrder = Given(TRUE)
    /\ props.disabled = Given(TRUE)
    /\ element.tabIndex = -1
    /\ lastEvent = "pointerdown"

\* C4: a legacy orientation decides the gesture axis and aria-orientation and
\* axis is ignored; without it axis decides both, "xy" giving no lock and no
\* aria-orientation.  The two never disagree.
C4_AxisAndOrientation ==
    /\ props.orientation = Given("horizontal") =>
         dragOptions.axis = Given("x") /\ element.ariaOrientation = Given("horizontal")
    /\ props.orientation = Given("vertical") =>
         dragOptions.axis = Given("y") /\ element.ariaOrientation = Given("vertical")
    /\ props.orientation = Undefined =>
         /\ props.axis = Given("x") =>
              dragOptions.axis = Given("x") /\ element.ariaOrientation = Given("horizontal")
         /\ props.axis \in { Given("y"), Undefined } =>
              dragOptions.axis = Given("y") /\ element.ariaOrientation = Given("vertical")
         /\ props.axis = Given("xy") =>
              dragOptions.axis = Undefined /\ element.ariaOrientation = Undefined
    /\ dragOptions.axis = Given("x") <=> element.ariaOrientation = Given("horizontal")
    /\ dragOptions.axis = Given("y") <=> element.ariaOrientation = Given("vertical")
    /\ dragOptions.axis = Undefined <=> element.ariaOrientation = Undefined

\* C4 witness: a horizontal legacy orientation over axis "y", after a frame.
C4_Witness ==
    /\ props.orientation = Given("horizontal")
    /\ props.axis = Given("y")
    /\ dragOptions.axis = Given("x")
    /\ Called

\* ------------------------------------------------------- helpers of the claims
\* The spacing of the numbers around x.
Ulp(x) == Pow2(UlpExp(Abs(x), 1, 0))
Near(x, y, tol) == Abs(x - y) <= tol

\* Four spacings at the size of the range: what the five roundings of a round
\* trip can add up to.
RangeTolerance ==
    4 * Ulp(Max(Max(Abs(valueMin), Abs(valueMax)), valueMax - valueMin))

\* What the handler reports from raw with the default mappings.
LinearStep(raw, diff01) ==
    clamp(mapFrom01Linear(clamp01(NumAdd(mapTo01Linear(raw, valueMin, valueMax), diff01)),
                          valueMin, valueMax),
          valueMin, valueMax)

\* What it reports at position 1.
TopValue == clamp(mapFrom01Linear(Num(1), valueMin, valueMax), valueMin, valueMax)

\* A step in which the drag handler ran.
FrameStep == lastEvent' = "frame" /\ lastCall' # <<>>
NextCall == lastCall'[1]

\* The movement of the last frame lay wholly along the axis the lock drops.
OffAxis ==
    \/ dragOptions.axis = Given("x") /\ Call.movement[1] = 0
    \/ dragOptions.axis = Given("y") /\ Call.movement[2] = 0

\* The delta of the last frame went up, right or nowhere.
UpRight == Call.delta[1] >= 0 /\ Call.delta[2] <= 0

\* diff01 of every movement the gesture may deliver next.
NextDiffs ==
    { Diff01(RestrictToAxis(dragOptions.axis, m), dragSensitivity) : m \in Movements }

\* ------------------------------------------------------- C5
C5_DiffFormula ==
    Called =>
      /\ dragOptions.axis = Given("x") =>
           Call.diff01 = NumMul(Num(Call.movement[1]), dragSensitivity)
      /\ dragOptions.axis = Given("y") =>
           Call.diff01 = -NumMul(Num(Call.movement[2]), dragSensitivity)
      /\ dragOptions.axis = Undefined =>
           Call.diff01 = NumSub(NumMul(Num(Call.movement[1]), dragSensitivity),
                                NumMul(Num(Call.movement[2]), dragSensitivity))

C5_OffAxisZero ==
    (Called /\ DefaultCurve /\ OffAxis) =>
      /\ Call.diff01 = 0
      /\ Call.newValueRaw = LinearStep(Call.valueRaw, 0)
      /\ InRange(Call.valueRaw) => Near(Call.newValueRaw, Call.valueRaw, RangeTolerance)

C5_UpRightNotBelow ==
    (Called /\ DefaultCurve /\ dragSensitivity > 0 /\ UpRight) =>
      /\ Call.diff01 >= 0
      /\ Call.newValueRaw >= LinearStep(Call.valueRaw, 0)

\* C5 (amended): diff01 = dx * sensitivity - dy * sensitivity over the delta the
\* axis lock lets through (x: dx only, y: dy only, none: both).  A frame moving
\* wholly along the other axis has diff01 = 0 and reports what a frame without
\* movement reports: the current in-range value up to floating-point rounding.
\* With positive sensitivity a frame up or right has diff01 >= 0 and never
\* reports less than a frame without movement.
C5_AxisRestrictedDiff == C5_DiffFormula /\ C5_OffAxisZero /\ C5_UpRightNotBelow

\* C5 witness: under the y lock, a purely horizontal movement from an in-range
\* value, reporting a value other than the current one.
C5_Witness ==
    /\ Called /\ DefaultCurve
    /\ dragOptions.axis = Given("y")
    /\ Call.movement[1] # 0 /\ Call.movement[2] = 0
    /\ InRange(Call.valueRaw)
    /\ Call.newValueRaw # Call.valueRaw
    /\ Near(Call.newValueRaw, Call.valueRaw, RangeTolerance)

\* C5 as stated: the diff01 formula, an off-axis frame reports exactly the
\* current value, and up or right never reports less than the current value.
C5_AsStated ==
    /\ C5_DiffFormula
    /\ (Called /\ DefaultCurve /\ InRange(Call.valueRaw) /\ OffAxis) =>
         Call.newValueRaw = Call.valueRaw
    /\ (Called /\ DefaultCurve /\ InRange(Call.valueRaw) /\ dragSensitivity > 0 /\ UpRight) =>
         Call.newValueRaw >= Call.valueRaw

\* ------------------------------------------------------- C6
C6_Bottom ==
    (Called /\ DefaultCurve /\ Call.value01 = 0 /\ Call.diff01 < 0) =>
      Call.newValue01 = 0 /\ Call.newValueRaw = valueMin

C6_Top ==
    (Called /\ DefaultCurve /\ Call.value01 = Num(1) /\ Call.diff01 > 0) =>
      /\ Call.newValue01 = Num(1)
      /\ Call.newValueRaw = TopValue
      /\ TopValue <= valueMax
      /\ Near(TopValue, valueMax, RangeTolerance)

C6_BottomFedBack ==
    (OwnerStores /\ DefaultCurve /\ Called /\ Call.newValue01 = 0 /\ Call.diff01 < 0) =>
      /\ valueRaw = valueMin
      /\ \A d \in NextDiffs : d < 0 => LinearStep(valueRaw, d) = valueMin

C6_TopFedBack ==
    (OwnerStores /\ DefaultCurve /\ Called /\ Call.newValue01 = Num(1) /\ Call.diff01 > 0) =>
      /\ valueRaw = TopValue
      /\ \A d \in NextDiffs : d > 0 =>
           /\ LinearStep(valueRaw, d) <= TopValue
           /\ NumAdd(mapTo01Linear(valueRaw, valueMin, valueMax), d) >= Num(1) =>
                LinearStep(valueRaw, d) = TopValue

\* C6 (amended): at position 0 a frame with negative diff01 gives position 0 and
\* reports valueMin; at position 1 a frame with positive diff01 gives position 1
\* and reports clamp(mapFrom01(1)), which is at most valueMax and equals it up to
\* floating-point rounding.  With the owner feeding values back, further frames
\* downwards keep reporting valueMin; further frames upwards never report more
\* than that top value and report it again whenever they reach position 1.
C6_Saturation == C6_Bottom /\ C6_Top /\ C6_BottomFedBack /\ C6_TopFedBack

\* C6 witness: a frame upwards at position 1 that reported a value below valueMax
\* to an owner that stores it.
C6_Witness ==
    /\ Called /\ DefaultCurve /\ OwnerStores
    /\ Call.value01 = Num(1) /\ Call.diff01 > 0
    /\ Call.newValue01 = Num(1)
    /\ Call.newValueRaw = TopValue
    /\ Call.newValueRaw < valueMax

\* C6 as stated: at position 0 with negative diff01 the report is valueMin, and
\* at position 1 with positive diff01 the report is valueMax.
C6_AsStated ==
    /\ C6_Bottom
    /\ (Called /\ DefaultCurve /\ Call.value01 = Num(1) /\ Call.diff01 > 0) =>
         Call.newValue01 = Num(1) /\ Call.newValueRaw = valueMax

\* ------------------------------------------------------- C7
C7_Boundary ==
    /\ mapTo01Linear(valueMin, valueMin, valueMax) = 0
    /\ mapTo01Linear(valueMax, valueMin, valueMax) = Num(1)
    /\ mapFrom01Linear(0, valueMin, valueMax) = valueMin

C7_NearRoundTrip ==
    (Called /\ DefaultCurve /\ InRange(Call.valueRaw)) =>
      /\ Near(mapFrom01Linear(Call.value01, valueMin, valueMax), Call.valueRaw,
              RangeTolerance)
      /\ Call.diff01 = 0 => Near(Call.newValueRaw, Call.valueRaw, RangeTolerance)

\* C7 (amended): with the linear curve mapTo01(min) = 0, mapTo01(max) = 1 and
\* mapFrom01(0) = min exactly, and mapFrom01(mapTo01(raw)) equals raw up to
\* floating-point rounding for raw in [min, max]; so a frame with diff01 = 0
\* reports the current in-range value up to floating-point rounding.
C7_RoundTrip == C7_Boundary /\ C7_NearRoundTrip

\* C7 witness: a frame with diff01 = 0 from an in-range value strictly between
\* the bounds that reported another value, within the tolerance.
C7_Witness ==
    /\ Called /\ DefaultCurve
    /\ valueMin < Call.valueRaw /\ Call.valueRaw < valueMax
    /\ Call.diff01 = 0
    /\ Call.newValueRaw # Call.valueRaw
    /\ Near(Call.newValueRaw, Call.valueRaw, RangeTolerance)

\* C7 as stated: the round trip returns raw itself for every raw in range, so a
\* frame with diff01 = 0 reports exactly the current in-range value.
C7_AsStated ==
    /\ C7_Boundary
    /\ (Called /\ DefaultCurve /\ InRange(Call.valueRaw)) =>
         mapFrom01Linear(Call.value01, valueMin, valueMax) = Call.valueRaw
    /\ (Called /\ DefaultCurve /\ InRange(Call.valueRaw) /\ Call.diff01 = 0) =>
         Call.newValueRaw = Call.valueRaw

\* ------------------------------------------------------- C8
C8_States ==
    /\ gesture \in { "idle", "dragging" }
    /\ lastEvent = "frame" => gesture = "dragging" /\ Called
    /\ lastEvent \in { "pointerup", "pointercancel" } => gesture = "idle"
    /\ gesture = "dragging" => pointer = "down" /\ dragOptions.enabled

C8_Step ==
    /\ (gesture = "idle" /\ gesture' = "dragging") => lastEvent' = "pointerdown"
    /\ (gesture = "dragging" /\ gesture' = "idle") =>
         lastEvent' \in { "pointerup", "pointercancel" }
    /\ (lastEvent' = "pointerdown" /\ dragOptions.enabled) => gesture' = "dragging"
    /\ lastEvent' \in { "frame", "pointermove" } => gesture' = gesture
    /\ (lastCall' # lastCall \/ valueRaw' # valueRaw \/ element' # element) =>
         gesture = "dragging" /\ gesture' = "dragging" /\ FrameStep
    /\ FrameStep =>
         /\ NextCall.newValueRaw = clamp(NextCall.mapped, valueMin, valueMax)
         /\ OwnerStores => valueRaw' = NextCall.newValueRaw
                           /\ element' = Render(NextCall.newValueRaw)
    /\ UNCHANGED <<props, dragOptions>>

C9_FunctionOfInputs ==
    (Called /\ DefaultCurve) =>
      Call.newValueRaw = LinearStep(Call.valueRaw, Diff01(Call.delta, dragSensitivity))

C9_NoFeedbackNoAccumulation ==
    (~OwnerStores /\ DefaultCurve /\ Called /\ FrameStep /\ NextCall.delta = Call.delta) =>
      NextCall.newValueRaw = Call.newValueRaw

C9_FeedbackFromReport ==
    (OwnerStores /\ DefaultCurve /\ Called /\ FrameStep) =>
      /\ NextCall.valueRaw = Call.newValueRaw
      /\ NextCall.value01 = mapTo01Linear(Call.newValueRaw, valueMin, valueMax)
      /\ NextCall.newValue01 = clamp01(NumAdd(NextCall.value01, NextCall.diff01))
      /\ Abs(NextCall.value01 - Call.newValue01) * (valueMax - valueMin)
           <= RangeTolerance * Scale
      /\ NumAdd(Call.value01, Call.diff01) > Num(1) =>
           /\ Call.newValueRaw = TopValue
           /\ NextCall.newValue01 =
                clamp01(NumAdd(mapTo01Linear(TopValue, valueMin, valueMax), NextCall.diff01))

\* C9 (amended): the value a frame reports is a function of the valueRaw supplied,
\* the frame's delta and the configuration alone.  (a) With the owner feeding
\* values back, the position after frame k is clamp01(mapTo01(value reported by
\* frame k-1) + diff01 of frame k), where mapTo01 of the reported value is the
\* position after frame k-1 up to floating-point rounding (their difference,
\* taken over the range, is within the tolerance); after an overshoot
\* past 1 the report is the top value and the next frame starts from mapTo01 of
\* it, whatever the overshoot was.  (b) Without feedback, frames with the same
\* delta report the same value.
C9_HoldsNoState ==
    /\ []C9_FunctionOfInputs
    /\ [][C9_NoFeedbackNoAccumulation]_vars
    /\ [][C9_FeedbackFromReport]_vars

\* C9 witness: a frame downwards from the fed-back top value, whose position is
\* below 1.
C9_Witness ==
    /\ Called /\ DefaultCurve /\ OwnerStores
    /\ Call.valueRaw = TopValue
    /\ TopValue < valueMax
    /\ Call.value01 < Num(1)
    /\ Call.diff01 < 0
    /\ Call.newValue01 = NumAdd(Call.value01, Call.diff01)

\* C9 as stated: (a) with feedback the position after frame k is clamp01(position
\* after frame k-1 + diff01 of frame k), and after an overshoot past 1 a frame
\* with diff01 = -d, 0 < d <= 1, gives position 1 - d; (b) as above.
C9_AsStated ==
    /\ []C9_FunctionOfInputs
    /\ [][C9_NoFeedbackNoAccumulation]_vars
    /\ [][(OwnerStores /\ DefaultCurve /\ Called /\ FrameStep) =>
            NextCall.newValue01 = clamp01(NumAdd(Call.newValue01, NextCall.diff01))]_vars
    /\ [][(OwnerStores /\ DefaultCurve /\ Called /\ FrameStep
           /\ NumAdd(Call.value01, Call.diff01) > Num(1)
           /\ NextCall.diff01 < 0 /\ NextCall.diff01 >= -Num(1)) =>
            NextCall.newValue01 = NumAdd(Num(1), NextCall.diff01)]_vars

\* ------------------------------------------------------- C10
\* A rounding function coarser than the steps of the drag.
Coarse == props.valueRawRoundFn = "Math.round"

C10_Rendered ==
    /\ element.ariaValueNow = valueRawRoundFn(valueRaw)
    /\ element.ariaValueText = valueRawDisplayFn(valueRaw)
    /\ Called =>
         /\ Call.newValueRaw = clamp(Call.mapped, valueMin, valueMax)
         /\ OwnerStores => valueRaw = Call.newValueRaw

C10_StartsFromUnrounded ==
    FrameStep =>
      /\ NextCall.valueRaw = valueRaw
      /\ NextCall.value01 \in MapTo01(valueRaw, valueMin, valueMax)

C10_Accumulates ==
    (Coarse /\ OwnerStores /\ DefaultCurve /\ FrameStep /\ InRange(valueRaw)
     /\ NextCall.diff01 > 0 /\ valueRaw < valueMax) =>
      /\ valueRaw' > valueRaw
      /\ valueRawRoundFn(valueRaw') >= valueRawRoundFn(valueRaw)
      /\ valueRaw' = valueMax => valueRawRoundFn(valueRaw') = valueMax

\* C10: aria-valuenow is valueRawRoundFn(valueRaw) and aria-valuetext is
\* valueRawDisplayFn(valueRaw); a frame starts from the unrounded valueRaw and
\* reports its clamped result unrounded.  Hence under a coarse rounding function
\* and an owner that stores the reports, every frame upwards below valueMax
\* raises the stored value, so that same-direction frames smaller than the
\* rounding step add up until the rounded value changes.
C10_RoundingApart ==
    /\ []C10_Rendered
    /\ [][C10_StartsFromUnrounded]_vars
    /\ [][C10_Accumulates]_vars

\* C10 witness: a small frame upwards from an unrounded value that changed the
\* rounded value, where the same frame from the rounded value would not have.
C10_Witness ==
    /\ Coarse /\ OwnerStores /\ Called
    /\ Call.diff01 > 0 /\ Call.diff01 < Scale \div 4
    /\ valueRawRoundFn(Call.valueRaw) # Call.valueRaw
    /\ valueRawRoundFn(Call.newValueRaw) # valueRawRoundFn(Call.valueRaw)
    /\ valueRawRoundFn(LinearStep(valueRawRoundFn(Call.valueRaw), Call.diff01))
         = valueRawRoundFn(Call.valueRaw)
====
